---- MODULE Spec2Model ----
(***************************************************************************)
(* Model of composer/utils/remote_uploader.py: RemoteUploader (the upload  *)
(* manager) and _upload_file_to_object_store (the worker run by the        *)
(* ProcessPoolExecutor).                                                   *)
(*                                                                         *)
(* One caller thread drives the manager (upload_file_async, check_workers, *)
(* wait, wait_and_close); its loops over self.futures are modelled one     *)
(* iteration per step because the workers run in other processes and       *)
(* resolve futures between iterations.  Each worker runs one task: one     *)
(* step per backend call (get_object_size, upload_object).                 *)
(***************************************************************************)
EXTENDS Integers, Sequences, FiniteSets, TLC

\* ---- bounds -------------------------------------------------------------
MaxCalls == 2        \* number of upload_file_async calls explored
MaxAttempts == 2     \* largest num_attempts explored
MaxWorkers == 2      \* largest num_concurrent_uploads explored
MaxRank == 2         \* largest local rank explored
MaxStagger == 2      \* largest COMPOSER_LOCAL_RANK_STAGGER_SECONDS explored
NumRanks == 2        \* number of participants calling init()

Ids == 1..MaxCalls
Ranks == 0..(NumRanks - 1)   \* global ranks; rank 0 is the leader
Names == {"a", "b"}  \* remote_file_name values; "a" is in the store from the start

\* exception classes that can end up stored in a Future
TransientError == "ObjectStoreTransientError"
ConflictError == "FileExistsError"
OtherError == "OtherError"

VARIABLES
    num_attempts,            \* self.num_attempts
    num_concurrent_uploads,  \* executor max_workers
    retry_passes_index,      \* whether retry() hands the operation its retry index
    futures,                 \* self.futures : sequence of handle ids
    executor_shutdown,       \* self.executor has been shut down
    uuids,                   \* number of uuid4() names drawn so far
    staging,                 \* files present in self._upload_staging_folder
    task,                    \* id -> arguments given to executor.submit
    state,                   \* id -> state of the Future / worker position
    exc,                     \* id -> exception stored in the Future
    retry_i,                 \* id -> loop counter i of retry()
    last,                    \* id -> how the latest upload_file invocation ended
    remote,                  \* object names present in the object store
    pc,                      \* position of the caller thread
    idx,                     \* loop index over self.futures
    done_futures,            \* local list of check_workers
    queried,                 \* handles whose exception() was called in the current call
    result,                  \* outcome of the last completed manager call
    entry_failed,            \* a tracked future had failed when the running
                             \* check_workers call began
    allocated,               \* what __init__ has created: "tempdir", "executor"
    local_rank,              \* get_local_rank() in the worker
    local_rank_stagger,      \* COMPOSER_LOCAL_RANK_STAGGER_SECONDS
    slept,                   \* id -> seconds the worker has spent in time.sleep
    staged_content,          \* staged file -> content copied into it
    stored,                  \* object name -> content held by the object store
    original_rev,            \* call -> 0 while the caller's file is as submitted, 1 once
                             \* the caller has modified or deleted it
    backend,                 \* variant of remote_folder: "generic", "mlflow", "uc"
    my_rank,                 \* global rank of the participant whose uploader is modelled
    ipc,                     \* rank -> position inside init()
    path,                    \* rank -> self.path
    object_store,            \* rank -> self.object_store (the path it was built from)
    bcast,                   \* value the leader has put into broadcast_object_list
    validate_i,              \* loop counter i of retry() around validate_credentials
    validated,               \* validate_credentials has returned on the leader
    resolve_calls            \* rank -> number of get_dbfs_path calls

vars == <<num_attempts, num_concurrent_uploads, retry_passes_index, futures,
          executor_shutdown, uuids, staging, task, state, exc, retry_i, last,
          remote, pc, idx, done_futures, queried, result, entry_failed,
          allocated, local_rank, local_rank_stagger, slept, staged_content,
          stored, original_rev, backend, my_rank, ipc, path, object_store,
          bcast, validate_i, validated, resolve_calls>>

mgrLoopVars == <<pc, idx, done_futures, queried, result, entry_failed>>
workerVars == <<state, exc, retry_i, last, remote, stored, slept>>
configVars == <<num_attempts, num_concurrent_uploads, retry_passes_index,
                allocated, local_rank, local_rank_stagger, backend, my_rank>>
initVars == <<ipc, path, object_store, bcast, validate_i, validated, resolve_calls>>

NoTask == [name |-> "", overwrite |-> FALSE, num_attempts |-> 0,
           local_file_path |-> 0, dbfs_path |-> "none"]
\* file content: the file of call `of` as it was when the call was made
\* (rev 0) or as the caller left it afterwards (rev 1); of = 0 is content
\* that no call submitted
NoContent == [of |-> 0, rev |-> 0]
NoResult == [op |-> "none", outcome |-> "none", exc |-> "none", handle |-> 0]

\* ---- helpers ------------------------------------------------------------
Range(s) == {s[k] : k \in 1..Len(s)}

RECURSIVE RemoveAll(_, _)
\* for future in done_futures: self.futures.remove(future)
RemoveAll(s, d) ==
    IF s = <<>> THEN <<>>
    ELSE IF Head(s) \in d THEN RemoveAll(Tail(s), d)
         ELSE <<Head(s)>> \o RemoveAll(Tail(s), d)

\* Future.done()
Done(h) == state[h] \in {"succeeded", "failed"}

Submitted == {t \in Ids : state[t] # "none"}
Running == {t \in Ids : state[t] \in {"sleep", "call", "upload"}}
Queued == {t \in Ids : state[t] = "queued"}

\* ---- construction -------------------------------------------------------
\* the uploader right after __init__: nothing submitted, nothing tracked
InitUploader ==
    /\ futures = <<>>
    /\ executor_shutdown = FALSE
    /\ uuids = 0
    /\ staging = {}
    /\ staged_content = [f \in Ids |-> NoContent]
    /\ task = [t \in Ids |-> NoTask]
    /\ state = [t \in Ids |-> "none"]
    /\ exc = [t \in Ids |-> "none"]
    /\ retry_i = [t \in Ids |-> 0]
    /\ last = [t \in Ids |-> "none"]
    /\ slept = [t \in Ids |-> 0]
    /\ remote = {"a"}
    /\ stored = [n \in Names |-> NoContent]
    /\ original_rev = [c \in Ids |-> 0]
    /\ idx = 0
    /\ done_futures = <<>>
    /\ queried = {}
    /\ result = NoResult
    /\ entry_failed = FALSE

\* init() has returned on every participant of a generic-URI run
InitReturned ==
    /\ backend = "generic"
    /\ my_rank = 0
    /\ ipc = [r \in Ranks |-> "returned"]
    /\ path = [r \in Ranks |-> "plain"]
    /\ object_store = [r \in Ranks |-> "plain"]
    /\ bcast = "none"
    /\ validate_i = 0
    /\ validated = TRUE
    /\ resolve_calls = [r \in Ranks |-> 0]

\* a constructed uploader on local rank 0 with the stagger variable unset
Init ==
    /\ num_attempts \in 1..MaxAttempts
    /\ num_concurrent_uploads \in 1..MaxWorkers
    /\ retry_passes_index \in BOOLEAN
    /\ allocated = {"tempdir", "executor"}
    /\ pc = "idle"
    /\ local_rank = 0
    /\ local_rank_stagger = 0
    /\ InitUploader
    /\ InitReturned

\* ---- RemoteUploader.upload_file_async ------------------------------------
\* The staging copy is made first; executor.submit then either raises
\* (pool shut down) or queues the task, and only then is the future tracked.
\* copied_path = os.path.join(tmp_dir, str(uuid.uuid4())): a fresh name
CopiedPath == uuids + 1

\* rank r is in the middle of its init() call
InsideInit(r) == ipc[r] \notin {"idle", "returned", "raised"}

upload_file_async(n, ow) ==
    /\ pc = "idle"
    /\ ~InsideInit(my_rank)
    /\ uuids < MaxCalls
    /\ uuids' = uuids + 1
    /\ staging' = staging \cup {CopiedPath}
    /\ staged_content' = [staged_content EXCEPT ![CopiedPath] =
                            [of |-> uuids + 1, rev |-> original_rev[uuids + 1]]]
    /\ IF executor_shutdown
       THEN /\ result' = [op |-> "upload_file_async", outcome |-> "raised",
                          exc |-> "RuntimeError", handle |-> 0]
            /\ UNCHANGED <<futures, task, state>>
       ELSE /\ task' = [task EXCEPT ![uuids + 1] =
                          [name |-> n, overwrite |-> ow, num_attempts |-> num_attempts,
                           local_file_path |-> CopiedPath,
                           dbfs_path |-> path[my_rank]]]
            /\ state' = [state EXCEPT ![uuids + 1] = "queued"]
            /\ futures' = Append(futures, uuids + 1)
            /\ result' = [op |-> "upload_file_async", outcome |-> "returned",
                          exc |-> "none", handle |-> uuids + 1]
    /\ pc' = "completed"
    /\ UNCHANGED <<configVars, initVars, original_rev, executor_shutdown, exc, retry_i,
                   last, remote, stored, slept, idx, done_futures, queried,
                   entry_failed>>

\* the caller takes the outcome of the finished call and goes on; the locals
\* of the finished call are gone
caller_continue ==
    /\ pc = "completed"
    /\ pc' = "idle"
    /\ idx' = 0
    /\ done_futures' = <<>>
    /\ queried' = {}
    /\ result' = NoResult
    /\ UNCHANGED <<configVars, initVars, original_rev, futures, executor_shutdown, uuids, staging, staged_content, task,
                   workerVars, entry_failed>>

\* ---- RemoteUploader.check_workers ----------------------------------------
FutureAt_reversed(k) == futures[Len(futures) + 1 - k]

\* `for future in self.futures`: the future visited by iteration k
FutureAt(k) == futures[k]

HasException_swallow(h) == FALSE

\* future.exception() is not None
HasException(h) == state[h] = "failed"

ExceptionReturns_nonblocking(h) == TRUE

\* future.exception() in wait(): the call returns only once the future is done
ExceptionReturns(h) == Done(h)

CheckedDone_always(h) == TRUE

\* `if future.done()`: the guard of check_workers before future.exception()
CheckedDone(h) == Done(h)

Raise(op, h) ==
    [op |-> op, outcome |-> "raised", exc |-> exc[h], handle |-> h]

Return(op) ==
    [op |-> op, outcome |-> "returned", exc |-> "none", handle |-> 0]

FuturesAfterRaise_dropped(h) == RemoveAll(futures, {h})

\* `raise exception`: the call is left with self.futures as it was
FuturesAfterRaise(h) == futures

\* some tracked future holds an exception
FailedTracked == \E h \in Range(futures) : state[h] = "failed"

check_workers_begin ==
    /\ pc = "idle"
    /\ pc' = "check_workers"
    /\ idx' = 1
    /\ done_futures' = <<>>
    /\ queried' = {}
    /\ entry_failed' = FailedTracked
    /\ UNCHANGED <<configVars, initVars, original_rev, futures, executor_shutdown, uuids, staging, staged_content, task,
                   workerVars, result>>

\* one iteration of `for future in self.futures`
check_workers_iter ==
    /\ pc = "check_workers"
    /\ idx <= Len(futures)
    /\ LET h == FutureAt(idx) IN
       IF CheckedDone(h)
       THEN \* future.exception() returns only once the future is done
            /\ queried' = queried \cup {h}
            /\ IF ~Done(h)
               THEN UNCHANGED <<pc, idx, done_futures, result, futures, entry_failed>>
               ELSE IF HasException(h)
               THEN /\ result' = Raise("check_workers", h)
                    /\ pc' = "completed"
                    /\ futures' = FuturesAfterRaise(h)
                    /\ entry_failed' = FALSE
                    /\ UNCHANGED <<idx, done_futures>>
               ELSE /\ done_futures' = Append(done_futures, h)
                    /\ idx' = idx + 1
                    /\ UNCHANGED <<pc, result, futures, entry_failed>>
       ELSE /\ idx' = idx + 1
            /\ UNCHANGED <<pc, done_futures, queried, result, futures, entry_failed>>
    /\ UNCHANGED <<configVars, initVars, original_rev, executor_shutdown, uuids, staging,
                   staged_content, task, workerVars>>

\* the removal loop, reached only when the first loop ran to its end
check_workers_end ==
    /\ pc = "check_workers"
    /\ idx > Len(futures)
    /\ futures' = RemoveAll(futures, Range(done_futures))
    /\ result' = Return("check_workers")
    /\ pc' = "completed"
    /\ entry_failed' = FALSE
    /\ UNCHANGED <<configVars, initVars, original_rev, executor_shutdown, uuids, staging, staged_content, task,
                   workerVars, idx, done_futures, queried>>

\* ---- RemoteUploader.wait / wait_and_close --------------------------------
\* op is "wait" or "wait_and_close" (the latter runs wait() and then the
\* shutdown; an exception raised by wait() leaves wait_and_close at once).
wait_begin(op) ==
    /\ pc = "idle"
    /\ pc' = op
    /\ idx' = 1
    /\ queried' = {}
    /\ UNCHANGED <<configVars, initVars, original_rev, futures, executor_shutdown, uuids,
                   staging, staged_content, task, workerVars, done_futures, result,
                   entry_failed>>

\* one iteration of `for future in self.futures`: exception() blocks until
\* the future is done
wait_iter ==
    /\ pc \in {"wait", "wait_and_close"}
    /\ idx <= Len(futures)
    /\ LET h == FutureAt(idx) IN
       /\ ExceptionReturns(h)
       /\ queried' = queried \cup {h}
       /\ IF HasException(h)
          THEN /\ result' = Raise(pc, h)
               /\ pc' = "completed"
               /\ futures' = FuturesAfterRaise(h)
               /\ UNCHANGED idx
          ELSE /\ idx' = idx + 1
               /\ UNCHANGED <<pc, result, futures>>
    /\ UNCHANGED <<configVars, initVars, original_rev, executor_shutdown, uuids, staging,
                   staged_content, task, workerVars, done_futures, entry_failed>>

\* self.futures = [] ; for wait_and_close also self.executor.shutdown(wait=True),
\* which returns once no submitted task is left unfinished
wait_end ==
    /\ pc \in {"wait", "wait_and_close"}
    /\ idx > Len(futures)
    /\ pc = "wait_and_close"
          => \A t \in Ids : state[t] \notin {"queued", "sleep", "call", "upload"}
    /\ futures' = <<>>
    /\ executor_shutdown' = (executor_shutdown \/ pc = "wait_and_close")
    /\ result' = Return(pc)
    /\ pc' = "completed"
    /\ UNCHANGED <<configVars, initVars, original_rev, uuids, staging, staged_content, task,
                   workerVars, idx, done_futures, queried, entry_failed>>

\* ---- retry (composer.utils.retrying) -------------------------------------
\* the retry index handed to the operation on the current attempt
RetryIndex(t) == IF retry_passes_index THEN retry_i[t] ELSE 0

\* attempts are exhausted when i + 1 == num_attempts
Exhausted(t) == retry_i[t] + 1 = task[t].num_attempts

\* ---- _upload_file_to_object_store ----------------------------------------
IsRetried_any(e) == TRUE

\* @retry(ObjectStoreTransientError, ...): the class that is retried
IsRetried(e) == e = TransientError

os_remove_skipped(t) == staging

\* os.remove(local_file_path)
os_remove(t) == staging \ {task[t].local_file_path}

UploadedContent_of_original(t) == [of |-> t, rev |-> original_rev[t]]

\* upload_object(filename=local_file_path): the bytes of the staged copy
UploadedContent(t) == staged_content[task[t].local_file_path]

StaggerDelay_flat == local_rank_stagger

\* local_rank * local_rank_stagger, the argument of time.sleep
StaggerDelay == local_rank * local_rank_stagger

PoolHasFreeWorker_one_less == Cardinality(Running) < num_concurrent_uploads - 1

PoolHasFreeWorker_one_more == Cardinality(Running) <= num_concurrent_uploads

\* ProcessPoolExecutor(max_workers=num_concurrent_uploads): a task leaves
\* the queue only when fewer than max_workers processes are busy
PoolHasFreeWorker == Cardinality(Running) < num_concurrent_uploads

SizeFound_inverted(t) == task[t].name \notin remote

\* get_object_size returns (the object exists) rather than raising
\* FileNotFoundError
SizeFound(t) == task[t].name \in remote

\* `if retry_index == 0 and not overwrite`
NeedsProbe(t) == RetryIndex(t) = 0 /\ ~task[t].overwrite

\* upload_file raised e on the current attempt: retry, or let e end the
\* worker function (its locals are gone) and be stored in the future
Fail(t, e, tag) ==
    /\ last' = [last EXCEPT ![t] = tag]
    /\ IF IsRetried(e) /\ ~Exhausted(t)
       THEN /\ retry_i' = [retry_i EXCEPT ![t] = @ + 1]
            /\ state' = [state EXCEPT ![t] = "call"]
            /\ UNCHANGED exc
       ELSE /\ state' = [state EXCEPT ![t] = "failed"]
            /\ exc' = [exc EXCEPT ![t] = e]
            /\ retry_i' = [retry_i EXCEPT ![t] = 0]

\* a pool process takes the oldest queued task; the worker function reads the
\* local rank and the stagger variable and calls time.sleep (a sleep of 0
\* seconds returns at once) before upload_file()
worker_start(t) ==
    /\ state[t] = "queued"
    /\ \A u \in Queued : t <= u
    /\ PoolHasFreeWorker
    /\ state' = [state EXCEPT ![t] = IF StaggerDelay = 0 THEN "call" ELSE "sleep"]
    /\ UNCHANGED <<configVars, initVars, original_rev, futures, executor_shutdown, uuids,
                   staging, staged_content, task, exc, retry_i, last, remote, stored,
                   slept, mgrLoopVars>>

\* time.sleep(local_rank * local_rank_stagger) returns in the worker process
time_sleep(t) ==
    /\ state[t] = "sleep"
    /\ slept' = [slept EXCEPT ![t] = StaggerDelay]
    /\ state' = [state EXCEPT ![t] = "call"]
    /\ UNCHANGED <<configVars, initVars, original_rev, futures, executor_shutdown, uuids,
                   staging, staged_content, task, exc, retry_i, last, remote, stored,
                   mgrLoopVars>>

\* object_store.get_object_size(remote_file_name) and its try/except/else
probe(t) ==
    /\ state[t] = "call"
    /\ NeedsProbe(t)
    /\ \/ /\ SizeFound(t)
          /\ Fail(t, ConflictError, "conflict")
       \/ /\ ~SizeFound(t)
          /\ state' = [state EXCEPT ![t] = "upload"]
          /\ UNCHANGED <<exc, retry_i, last>>
       \/ Fail(t, TransientError, "transient")
       \/ Fail(t, OtherError, "other")
    /\ UNCHANGED <<configVars, initVars, original_rev, futures, executor_shutdown, uuids,
                   staging, staged_content, task, remote, stored, slept, mgrLoopVars>>

\* object_store.upload_object(...) followed by os.remove(local_file_path); on
\* success the function returns 0 and the future resolves
upload_file(t) ==
    /\ \/ state[t] = "upload"
       \/ state[t] = "call" /\ ~NeedsProbe(t)
    /\ \/ /\ remote' = remote \cup {task[t].name}
          /\ stored' = [stored EXCEPT ![task[t].name] = UploadedContent(t)]
          /\ staging' = os_remove(t)
          /\ last' = [last EXCEPT ![t] = "ok"]
          /\ state' = [state EXCEPT ![t] = "succeeded"]
          /\ retry_i' = [retry_i EXCEPT ![t] = 0]
          /\ UNCHANGED exc
       \/ /\ Fail(t, TransientError, "transient")
          /\ UNCHANGED <<remote, stored, staging>>
       \/ /\ Fail(t, OtherError, "other")
          /\ UNCHANGED <<remote, stored, staging>>
    /\ UNCHANGED <<configVars, initVars, original_rev, futures, executor_shutdown, uuids,
                   staged_content, task, slept, mgrLoopVars>>

\* ---- specification -------------------------------------------------------
Next ==
    \/ \E n \in Names, ow \in BOOLEAN : upload_file_async(n, ow)
    \/ check_workers_begin
    \/ check_workers_iter
    \/ check_workers_end
    \/ \E op \in {"wait", "wait_and_close"} : wait_begin(op)
    \/ wait_iter
    \/ wait_end
    \/ caller_continue
    \/ \E t \in Ids : worker_start(t)
    \/ \E t \in Ids : probe(t)
    \/ \E t \in Ids : upload_file(t)

Spec == Init /\ [][Next]_vars

\* ---- the caller's own files ---------------------------------------------
\* after upload_file_async(c) has returned, the caller rewrites or deletes
\* the file it passed as file_path
modify_original(c) ==
    /\ c <= uuids
    /\ original_rev[c] = 0
    /\ original_rev' = [original_rev EXCEPT ![c] = 1]
    /\ UNCHANGED <<configVars, initVars, futures, executor_shutdown, uuids, staging,
                   staged_content, task, workerVars, mgrLoopVars>>

\* one attempt per task, every worker available
InitContent ==
    /\ num_attempts = 1
    /\ num_concurrent_uploads = MaxWorkers
    /\ retry_passes_index = TRUE
    /\ allocated = {"tempdir", "executor"}
    /\ pc = "idle"
    /\ local_rank = 0
    /\ local_rank_stagger = 0
    /\ InitUploader
    /\ InitReturned

NextContent ==
    \/ Next
    \/ \E c \in Ids : modify_original(c)

SpecContent == InitContent /\ [][NextContent]_vars

TypeOK ==
    /\ num_attempts \in 1..MaxAttempts
    /\ num_concurrent_uploads \in 1..MaxWorkers
    /\ uuids \in 0..MaxCalls
    /\ staging \subseteq Ids
    /\ Range(futures) \subseteq Submitted
    /\ remote \subseteq Names
    /\ pc \in {"idle", "check_workers", "wait", "wait_and_close", "completed"}

\* ---- staggered uploads ---------------------------------------------------
\* num_concurrent_uploads: int = 2
DefaultConcurrentUploads == 2

\* uploaders on any local rank, with any stagger setting; the default pool
\* size and one attempt per task
InitStagger ==
    /\ num_attempts = 1
    /\ num_concurrent_uploads = DefaultConcurrentUploads
    /\ retry_passes_index = TRUE
    /\ allocated = {"tempdir", "executor"}
    /\ pc = "idle"
    /\ local_rank \in 0..MaxRank
    /\ local_rank_stagger \in 0..MaxStagger
    /\ InitUploader
    /\ InitReturned

NextStagger ==
    \/ Next
    \/ \E t \in Ids : time_sleep(t)

SpecStagger == InitStagger /\ [][NextStagger]_vars

\* ---- fair scheduling ------------------------------------------------------
\* a single pool process, so that tasks queue up behind one another, with the
\* largest number of attempts, on the participant that sleeps longest
InitFair ==
    /\ num_attempts = MaxAttempts
    /\ num_concurrent_uploads = 1
    /\ retry_passes_index = TRUE
    /\ allocated = {"tempdir", "executor"}
    /\ pc = "idle"
    /\ local_rank = MaxRank
    /\ local_rank_stagger = MaxStagger
    /\ InitUploader
    /\ InitReturned

\* what the pool process does for task t
WorkerStep(t) ==
    \/ worker_start(t)
    \/ time_sleep(t)
    \/ probe(t)
    \/ upload_file(t)

\* the pool process keeps running the task it has and takes the next one when
\* it is free, every backend call and every sleep returns, and a caller
\* blocked in wait() or shutdown() is resumed once what it waits for is there
SpecFair ==
    /\ InitFair
    /\ [][NextStagger]_vars
    /\ \A t \in Ids : WF_vars(WorkerStep(t))
    /\ WF_vars(wait_iter)
    /\ WF_vars(wait_end)

\* ---- RemoteUploader.__init__ --------------------------------------------
ValidArgs_both(ncu, na) == ~(ncu < 1 /\ na < 1)

\* the negation of `if num_concurrent_uploads < 1 or num_attempts < 1`
ValidArgs(ncu, na) == ~(ncu < 1 \/ na < 1)

\* the argument check, the first statement of __init__
ctor_check ==
    /\ pc = "constructing"
    /\ IF ValidArgs(num_concurrent_uploads, num_attempts)
       THEN /\ pc' = "ctor_tempdir"
            /\ UNCHANGED result
       ELSE /\ pc' = "rejected"
            /\ result' = [op |-> "__init__", outcome |-> "raised",
                          exc |-> "ValueError", handle |-> 0]
    /\ UNCHANGED <<configVars, initVars, original_rev, futures, executor_shutdown, uuids,
                   staging, staged_content, task, workerVars, idx, done_futures,
                   queried, entry_failed>>

\* self._tempdir = tempfile.TemporaryDirectory()
ctor_tempdir ==
    /\ pc = "ctor_tempdir"
    /\ allocated' = allocated \cup {"tempdir"}
    /\ pc' = "ctor_executor"
    /\ UNCHANGED <<num_attempts, num_concurrent_uploads, retry_passes_index, local_rank,
                   local_rank_stagger, backend, my_rank, initVars, original_rev,
                   futures, executor_shutdown, uuids, staging, staged_content, task,
                   workerVars, idx, done_futures, queried, result, entry_failed>>

\* self.executor = ProcessPoolExecutor(...); self.futures = []
ctor_executor ==
    /\ pc = "ctor_executor"
    /\ allocated' = allocated \cup {"executor"}
    /\ futures' = <<>>
    /\ pc' = "idle"
    /\ UNCHANGED <<num_attempts, num_concurrent_uploads, retry_passes_index, local_rank,
                   local_rank_stagger, backend, my_rank, initVars, original_rev,
                   executor_shutdown, uuids, staging, staged_content, task,
                   workerVars, idx, done_futures, queried, result, entry_failed>>

\* the constructor is called with arguments from 0 upwards; nothing exists yet
InitCtor ==
    /\ num_attempts \in 0..MaxAttempts
    /\ num_concurrent_uploads \in 0..MaxWorkers
    /\ retry_passes_index = TRUE
    /\ allocated = {}
    /\ pc = "constructing"
    /\ local_rank = 0
    /\ local_rank_stagger = 0
    /\ InitUploader
    /\ InitReturned

NextCtor ==
    \/ ctor_check
    \/ ctor_tempdir
    \/ ctor_executor
    \/ Next

SpecCtor == InitCtor /\ [][NextCtor]_vars

\* ---- RemoteUploader.init --------------------------------------------------
\* every participant (global rank) holds its own uploader and calls init()
\* once.  path is "template" for a managed-tracking path whose experiment and
\* run ids are still placeholders, "resolved" once get_dbfs_path has filled
\* them in, "plain" for every other remote folder.
IsLeader_everyone(r) == TRUE

\* get_global_rank() == 0
IsLeader(r) == r = 0

\* `if get_global_rank() == 0:` in front of the credential validation
AfterStore(r) == IF IsLeader(r) THEN "validate" ELSE "returned"

\* init() raises on rank r
InitRaises(r) ==
    /\ ipc' = [ipc EXCEPT ![r] = "raised"]
    /\ UNCHANGED <<path, object_store, bcast, validate_i, validated, resolve_calls>>

\* not dbfs: self.object_store = maybe_create_object_store_from_uri(...)
init_generic(r) ==
    /\ ipc[r] = "idle"
    /\ backend = "generic"
    /\ \/ /\ object_store' = [object_store EXCEPT ![r] = path[r]]
          /\ ipc' = [ipc EXCEPT ![r] = AfterStore(r)]
          /\ UNCHANGED <<path, bcast, validate_i, validated, resolve_calls>>
       \/ InitRaises(r)
    /\ UNCHANGED <<configVars, original_rev, futures, executor_shutdown, uuids, staging,
                   staged_content, task, workerVars, mgrLoopVars>>

\* dbfs path outside the managed-tracking prefix: build the client and return
init_uc(r) ==
    /\ ipc[r] = "idle"
    /\ backend = "uc"
    /\ \/ /\ object_store' = [object_store EXCEPT ![r] = path[r]]
          /\ ipc' = [ipc EXCEPT ![r] = "returned"]
          /\ UNCHANGED <<path, bcast, validate_i, validated, resolve_calls>>
       \/ InitRaises(r)
    /\ UNCHANGED <<configVars, original_rev, futures, executor_shutdown, uuids, staging,
                   staged_content, task, workerVars, mgrLoopVars>>

\* managed-tracking path: rank 0 builds the client and calls get_dbfs_path
\* (either may raise); the other ranks go straight on to the broadcast
init_mlflow(r) ==
    /\ ipc[r] = "idle"
    /\ backend = "mlflow"
    /\ IF IsLeader(r)
       THEN \/ /\ object_store' = [object_store EXCEPT ![r] = path[r]]
               /\ path' = [path EXCEPT ![r] = "resolved"]
               /\ resolve_calls' = [resolve_calls EXCEPT ![r] = @ + 1]
               /\ ipc' = [ipc EXCEPT ![r] = "broadcast"]
               /\ UNCHANGED <<bcast, validate_i, validated>>
            \/ InitRaises(r)
       ELSE /\ ipc' = [ipc EXCEPT ![r] = "broadcast"]
            /\ UNCHANGED <<path, object_store, bcast, validate_i, validated,
                           resolve_calls>>
    /\ UNCHANGED <<configVars, original_rev, futures, executor_shutdown, uuids, staging,
                   staged_content, task, workerVars, mgrLoopVars>>

\* broadcast_object_list(path_list, src=0); self.path = path_list[0]: the
\* source hands out its list, every other rank returns from the call only
\* with the list of the source
broadcast_object_list(r) ==
    /\ ipc[r] = "broadcast"
    /\ IF r = 0
       THEN /\ bcast' = path[r]
            /\ UNCHANGED path
       ELSE /\ bcast # "none"
            /\ path' = [path EXCEPT ![r] = bcast]
            /\ UNCHANGED bcast
    /\ ipc' = [ipc EXCEPT ![r] = IF IsLeader(r) THEN "validate" ELSE "rebuild"]
    /\ UNCHANGED <<object_store, validate_i, validated, resolve_calls>>
    /\ UNCHANGED <<configVars, original_rev, futures, executor_shutdown, uuids, staging,
                   staged_content, task, workerVars, mgrLoopVars>>

\* `if get_global_rank() != 0: self.object_store = _build_dbfs_backend(self.path)`
init_rebuild(r) ==
    /\ ipc[r] = "rebuild"
    /\ \/ /\ object_store' = [object_store EXCEPT ![r] = path[r]]
          /\ ipc' = [ipc EXCEPT ![r] = AfterStore(r)]
          /\ UNCHANGED <<path, bcast, validate_i, validated, resolve_calls>>
       \/ InitRaises(r)
    /\ UNCHANGED <<configVars, original_rev, futures, executor_shutdown, uuids, staging,
                   staged_content, task, workerVars, mgrLoopVars>>

\* one call of validate_credentials inside retry(ObjectStoreTransientError,
\* self.num_attempts): it returns, or raises an error that is retried while
\* attempts are left, or raises one that ends init()
validate_credentials(r) ==
    /\ ipc[r] = "validate"
    /\ \/ /\ validated' = TRUE
          /\ ipc' = [ipc EXCEPT ![r] = "returned"]
          /\ UNCHANGED validate_i
       \/ \E e \in {TransientError, OtherError} :
             IF IsRetried(e) /\ validate_i + 1 # num_attempts
             THEN /\ validate_i' = validate_i + 1
                  /\ UNCHANGED <<ipc, validated>>
             ELSE /\ ipc' = [ipc EXCEPT ![r] = "raised"]
                  /\ UNCHANGED <<validate_i, validated>>
    /\ UNCHANGED <<path, object_store, bcast, resolve_calls>>
    /\ UNCHANGED <<configVars, original_rev, futures, executor_shutdown, uuids, staging,
                   staged_content, task, workerVars, mgrLoopVars>>

\* no participant has called init() yet
InitInit ==
    /\ num_attempts \in 1..MaxAttempts
    /\ num_concurrent_uploads = 1
    /\ retry_passes_index = TRUE
    /\ allocated = {"tempdir", "executor"}
    /\ pc = "idle"
    /\ local_rank = 0
    /\ local_rank_stagger = 0
    /\ InitUploader
    /\ backend \in {"generic", "mlflow", "uc"}
    /\ my_rank \in Ranks
    /\ ipc = [r \in Ranks |-> "idle"]
    /\ path = [r \in Ranks |-> IF backend = "mlflow" THEN "template" ELSE "plain"]
    /\ object_store = [r \in Ranks |-> "none"]
    /\ bcast = "none"
    /\ validate_i = 0
    /\ validated = FALSE
    /\ resolve_calls = [r \in Ranks |-> 0]

\* the steps of init() on rank r
InitStep(r) ==
    \/ init_generic(r)
    \/ init_uc(r)
    \/ init_mlflow(r)
    \/ broadcast_object_list(r)
    \/ init_rebuild(r)
    \/ validate_credentials(r)

NextInit ==
    \/ \E r \in Ranks : InitStep(r)
    \/ \E n \in Names, ow \in BOOLEAN : upload_file_async(n, ow)
    \/ caller_continue

SpecInit == InitInit /\ [][NextInit]_vars

\* every participant's process keeps running while it has a step to take
SpecInitFair == SpecInit /\ \A r \in Ranks : WF_vars(InitStep(r))

\* ---- properties ----------------------------------------------------------
Tracked == Range(futures)
WaitOps == {"wait", "wait_and_close"}

\* the step in which a wait() / wait_and_close() call ends
WaitEnds == pc \in WaitOps /\ pc' = "completed"
\* the step in which an invocation of upload_file by task t ends
InvocationEnds(t) ==
    /\ state[t] \in {"call", "upload"}
    /\ state'[t] \in {"succeeded", "failed"} \/ retry_i'[t] # retry_i[t]
\* the step in which a check_workers() call ends
CheckEnds == pc = "check_workers" /\ pc' = "completed"

\* C1: a failed upload is never swallowed.  A handle that is no longer in
\* self.futures has succeeded (so a failed handle stays tracked), and a wait()
\* or wait_and_close() that returned normally did so with no failed upload at
\* all: once an upload has failed every such call ends by raising.
C1_NeverSwallowed ==
    /\ \A t \in Submitted : t \notin Tracked => state[t] = "succeeded"
    /\ (pc = "completed" /\ result.op \in WaitOps /\ result.outcome = "returned")
          => \A t \in Submitted : state[t] # "failed"

\* a wait call raised the failure of a handle that is still tracked, after an
\* earlier check_workers had removed a succeeded handle
C1_Witness ==
    /\ pc = "completed"
    /\ result.op \in WaitOps
    /\ result.outcome = "raised"
    /\ result.handle \in Tracked
    /\ state[result.handle] = "failed"
    /\ \E h \in Submitted : state[h] = "succeeded" /\ h \notin Tracked

\* C2: upload_file_async after wait_and_close() has completed raises the
\* closed-pool error, leaves the staging area with exactly the same files and
\* leaves self.futures unchanged.
C2_ClosedSubmitNoCopy ==
    [][ (pc = "idle" /\ executor_shutdown /\ pc' = "completed"
            /\ result'.op = "upload_file_async")
          => /\ result'.outcome = "raised"
             /\ staging' = staging
             /\ futures' = futures ]_vars

\* C3: when a check_workers() call has ended, by returning or by raising,
\* every handle it inspected and found succeeded is gone from self.futures.
C3_RemovesInspectedSuccesses ==
    (pc = "completed" /\ result.op = "check_workers")
        => Range(done_futures) \cap Tracked = {}

\* C4: an attempt of an overwrite=false task that begins while the
\* destination name exists never makes the upload call, whatever the probe
\* did on earlier attempts, and an attempt that met the conflict ends the
\* task with FileExistsError at once (it is not retried).
C4_ConflictBeforeUpload ==
    [][ \A t \in Ids :
          /\ (state[t] = "call" /\ ~task[t].overwrite /\ task[t].name \in remote)
                => ~upload_file(t)
          /\ (InvocationEnds(t) /\ last'[t] = "conflict")
                => (state'[t] = "failed" /\ exc'[t] = ConflictError) ]_vars

\* C5: while wait() runs, every handle it has passed has succeeded (it does
\* not pass a pending or failed one); when it returns normally it has passed
\* every handle, self.futures is empty and no submitted upload is pending or
\* failed; it ends by raising only for a handle that failed, so with all
\* tracked uploads succeeding it returns normally.
C5_WaitAllSucceeded ==
    /\ pc \in WaitOps =>
          /\ queried = {futures[j] : j \in 1..(idx - 1)}
          /\ \A h \in queried : state[h] = "succeeded"
    /\ (pc = "completed" /\ result.op \in WaitOps) =>
          /\ result.outcome = "returned" =>
                /\ futures = <<>>
                /\ \A t \in Submitted : state[t] = "succeeded"
          /\ result.outcome = "raised" => state[result.handle] = "failed"

\* a wait() over two handles returned normally
C5_Witness ==
    /\ pc = "completed"
    /\ result.op = "wait"
    /\ result.outcome = "returned"
    /\ Cardinality(queried) >= 2
    /\ futures = <<>>

\* C6: a wait() that raises raises the exception of the first failed handle
\* of self.futures (the earliest submitted one); every handle before it has
\* succeeded and was waited on, no handle after it was waited on.
C6_WaitRaisesEarliestFailure ==
    (pc = "completed" /\ result.op \in WaitOps /\ result.outcome = "raised")
        => \E k \in 1..Len(futures) :
              /\ futures[k] = result.handle
              /\ state[futures[k]] = "failed"
              /\ result.exc = exc[futures[k]]
              /\ \A j \in 1..(k - 1) : state[futures[j]] = "succeeded"
              /\ queried = {futures[j] : j \in 1..k}

\* wait() raised for the first handle although a later handle has failed too
\* and was not waited on
C6_Witness ==
    /\ pc = "completed"
    /\ result.op = "wait"
    /\ result.outcome = "raised"
    /\ Len(futures) >= 2
    /\ result.handle = futures[1]
    /\ state[futures[2]] = "failed"
    /\ futures[2] \notin queried

\* C7: check_workers() calls future.exception() only on handles that are
\* done, and a call that found no handle done returns without raising and
\* leaves self.futures unchanged.
C7_CheckWorkersNonBlocking ==
    [][ /\ pc' = "check_workers" => \A h \in queried' : Done(h)'
        /\ (CheckEnds /\ queried' = {})
              => /\ result'.outcome = "returned"
                 /\ futures' = futures ]_vars

\* check_workers() returned over two handles that are both still unresolved
C7_Witness ==
    /\ pc = "completed"
    /\ result.op = "check_workers"
    /\ result.outcome = "returned"
    /\ queried = {}
    /\ Len(futures) >= 2
    /\ \A h \in Tracked : ~Done(h)

\* C8: after any wait_and_close() call, also one that raised, the pool is
\* shut down.
C8_ClosedAfterWaitAndClose ==
    (pc = "completed" /\ result.op = "wait_and_close") => executor_shutdown

\* C9: the staged copy of a task is present while the task is pending and
\* after it failed, and absent once it succeeded, which happens only through
\* an upload call that returned without error.
C9_StagedCopyLifetime ==
    \A t \in Submitted :
        /\ state[t] \in {"queued", "call", "upload", "failed"} => t \in staging
        /\ state[t] = "succeeded" => (t \notin staging /\ last[t] = "ok")

\* one task succeeded and its copy is gone, another failed and its copy remains
C9_Witness ==
    \E t, u \in Submitted :
        /\ state[t] = "succeeded" /\ t \notin staging
        /\ state[u] = "failed" /\ u \in staging

\* C10: upload_file is invoked at most num_attempts times per task (the
\* index of the running invocation stays below num_attempts).  An invocation
\* that fails with the transient class is followed by another one unless it
\* was invocation number num_attempts, in which case the task fails with the
\* transient error; one that returns makes the task succeed, whatever the
\* number of transient failures before it; one that fails with any other
\* class ends the task at once with that error.
C10_RetryBudget ==
    [][ \A t \in Ids :
          /\ retry_i'[t] < num_attempts
          /\ InvocationEnds(t) =>
                /\ last'[t] = "ok" => state'[t] = "succeeded"
                /\ (last'[t] = "transient" /\ retry_i[t] + 1 < task[t].num_attempts)
                      => (state'[t] = "call" /\ retry_i'[t] = retry_i[t] + 1)
                /\ (last'[t] = "transient" /\ retry_i[t] + 1 >= task[t].num_attempts)
                      => (state'[t] = "failed" /\ exc'[t] = TransientError)
                /\ last'[t] = "other"
                      => (state'[t] = "failed" /\ exc'[t] = OtherError)
                /\ last'[t] = "conflict"
                      => (state'[t] = "failed" /\ exc'[t] = ConflictError)
                /\ state'[t] = "failed" => exc'[t] # "none" ]_vars

\* with num_attempts >= 2: one task is in its last invocation after
\* num_attempts - 1 transient failures, another one has succeeded after a
\* transient failure and a third outcome, exhaustion, has ended a task
C10_Witness ==
    /\ num_attempts >= 2
    /\ \E t, u \in Submitted :
          /\ state[t] = "call" /\ retry_i[t] = num_attempts - 1
          /\ state[u] = "failed" /\ exc[u] = TransientError
                /\ last[u] = "transient"

\* the content of the caller's file of call t at the time of the call
SubmittedContent(t) == [of |-> t, rev |-> 0]

\* C11: what a task stores is the content its file had when upload_file_async
\* was called.  Every task has a staged copy under a name no other task
\* uses; until the task is done that copy holds the submitted content,
\* whatever the caller has done to the original since; an object written by
\* the uploader holds the submitted content of a succeeded task of that name;
\* and after a wait that returned normally, with all names distinct and
\* overwrite set, every name holds its own task's submitted content.
C11_SubmittedContentStored ==
    /\ \A t, u \in Submitted :
          t # u => task[t].local_file_path # task[u].local_file_path
    /\ \A t \in Submitted :
          ~Done(t) => /\ task[t].local_file_path \in staging
                      /\ staged_content[task[t].local_file_path] = SubmittedContent(t)
    /\ \A n \in remote :
          stored[n] # NoContent
             => \E t \in Submitted : /\ task[t].name = n
                                      /\ state[t] = "succeeded"
                                      /\ stored[n] = SubmittedContent(t)
    /\ ( /\ pc = "completed" /\ result.op = "wait" /\ result.outcome = "returned"
         /\ \A t \in Submitted : task[t].overwrite
         /\ \A t, u \in Submitted : t # u => task[t].name # task[u].name )
          => \A t \in Submitted : stored[task[t].name] = SubmittedContent(t)

\* wait() returned after two overwrite uploads to different names whose
\* originals the caller has both changed since
C11_Witness ==
    /\ pc = "completed" /\ result.op = "wait" /\ result.outcome = "returned"
    /\ \E t, u \in Submitted :
          /\ t # u /\ task[t].name # task[u].name
          /\ task[t].overwrite /\ task[u].overwrite
          /\ original_rev[t] = 1 /\ original_rev[u] = 1
          /\ stored[task[t].name] = SubmittedContent(t)
          /\ stored[task[u].name] = SubmittedContent(u)

\* C12: never more than num_concurrent_uploads tasks execute at once, and
\* upload_file_async hands back the handle of a tracked, submitted task
\* whatever the load of the pool: a task that finds every worker busy is
\* queued, not run and not waited for.
C12_PoolBound ==
    /\ Cardinality(Running) <= num_concurrent_uploads
    /\ (pc = "completed" /\ result.op = "upload_file_async"
                         /\ result.outcome = "returned")
          => /\ result.handle \in Tracked
             /\ state[result.handle] # "none"
             /\ Cardinality(Running \ {result.handle}) = num_concurrent_uploads
                   => state[result.handle] = "queued"

\* upload_file_async has returned a handle while every worker was busy with
\* earlier tasks: the new task sits in the queue
C12_Witness ==
    /\ pc = "completed" /\ result.op = "upload_file_async"
    /\ result.outcome = "returned"
    /\ Cardinality(Running) = num_concurrent_uploads
    /\ state[result.handle] = "queued"

\* C13: construction raises ValueError exactly when num_concurrent_uploads
\* < 1 or num_attempts < 1; the check runs while nothing has been allocated,
\* a rejected construction allocates nothing afterwards either, and no step
\* after the check changes either value.
C13_CtorValidation ==
    [][ /\ (pc = "constructing" /\ pc' # "constructing")
           => /\ (pc' = "rejected")
                    <=> (num_concurrent_uploads < 1 \/ num_attempts < 1)
              /\ pc' = "rejected" => result'.exc = "ValueError"
              /\ allocated = {}
        /\ (pc = "rejected" \/ pc' = "rejected") => allocated' = {}
        /\ pc # "constructing"
           => /\ num_attempts' = num_attempts
              /\ num_concurrent_uploads' = num_concurrent_uploads ]_vars

\* a construction rejected for num_attempts alone
C13_Witness ==
    /\ pc = "rejected"
    /\ num_concurrent_uploads >= 1 /\ num_attempts < 1
    /\ result.exc = "ValueError"
    /\ allocated = {}

\* C14: whenever init() has returned on the leader, the credential
\* validation has been performed, within the configured number of attempts,
\* whatever the backend variant.
C14_LeaderValidated ==
    /\ ipc[0] = "returned" => validated
    /\ validate_i < num_attempts

\* init() has returned on every participant
AllReturned == \A r \in Ranks : ipc[r] = "returned"

\* C15: on a managed-tracking path only rank 0 calls get_dbfs_path, and calls
\* it once; another rank has a client only once the broadcast value exists,
\* and that client is built from the broadcast value; when init() has
\* returned everywhere all ranks hold the one path the leader resolved; and a
\* task submitted from then on is given that path.
C15_LeaderResolvesAndBroadcasts ==
    [][ backend = "mlflow" =>
          /\ \A r \in Ranks \ {0} :
                /\ resolve_calls'[r] = 0
                /\ object_store'[r] # "none"
                      => bcast' # "none" /\ object_store'[r] = bcast'
          /\ resolve_calls'[0] <= 1
          /\ AllReturned'
                => /\ resolve_calls'[0] = 1
                   /\ \A r \in Ranks : path'[r] = "resolved" /\ path'[r] = bcast'
          /\ (AllReturned /\ uuids' = uuids + 1 /\ state'[uuids'] = "queued")
                => task'[uuids'].dbfs_path = path[0] ]_vars

\* init() has returned on every rank of a managed-tracking run and a
\* non-leader has since submitted a task carrying the resolved path
C15_Witness ==
    /\ backend = "mlflow" /\ AllReturned /\ my_rank # 0
    /\ resolve_calls[0] = 1
    /\ object_store[my_rank] = "resolved"
    /\ \E t \in Submitted : task[t].dbfs_path = "resolved"

\* C19: on a managed-tracking path, once every participant is inside init(),
\* init() ends on every participant, by returning or by raising.
C19_InitTerminatesEverywhere ==
    (backend = "mlflow" /\ \A r \in Ranks : ipc[r] # "idle")
       ~> (\A r \in Ranks : ipc[r] \in {"returned", "raised"})

Sleeping == {t \in Ids : state[t] = "sleep"}

\* C16: the worker sleeps local_rank * local_rank_stagger seconds before its
\* upload attempt begins: a worker on local rank 0 never sleeps, a task that
\* is past the sleep has slept exactly rank times stagger seconds, and no
\* upload attempt was made before.  The sleep holds up the worker only: while
\* a worker sleeps, a running check_workers can take its next step and an
\* idle caller can submit.
C16_StaggerDelay ==
    /\ \A t \in Sleeping : local_rank # 0 /\ local_rank_stagger # 0
    /\ \A t \in Ids :
          state[t] \in {"call", "upload", "succeeded", "failed"}
             => slept[t] = local_rank * local_rank_stagger
    /\ \A t \in Ids : state[t] \in {"queued", "sleep"} => last[t] = "none"
    /\ (Sleeping # {} /\ pc = "check_workers")
          => ENABLED (check_workers_iter \/ check_workers_end)
    /\ (Sleeping # {} /\ pc = "idle" /\ uuids < MaxCalls)
          => ENABLED (\E n \in Names, ow \in BOOLEAN : upload_file_async(n, ow))

\* on local rank 2 with a stagger of 2 seconds one task has slept 4 seconds
\* and succeeded, and check_workers has returned while another task sleeps
C16_Witness ==
    /\ local_rank = 2 /\ local_rank_stagger = 2
    /\ pc = "completed" /\ result.op = "check_workers"
    /\ result.outcome = "returned"
    /\ \E t, u \in Ids : /\ state[t] = "sleep"
                         /\ state[u] = "succeeded" /\ slept[u] = 4

\* the manager call that is running, if any, began when a tracked future had
\* already failed (a wait call cannot get past a failed future whenever it
\* failed; a check_workers scan can have passed it while it was pending)
BeganAfterFailure == pc = "check_workers" => entry_failed

SameNameNoOverwrite(t, u) ==
    /\ t # u
    /\ state[t] # "none" /\ state[u] # "none"
    /\ task[t].name = task[u].name
    /\ ~task[t].overwrite /\ ~task[u].overwrite

\* task t has got to its upload_object call, or has completed it
ReachedUpload(t) == state[t] = "upload" \/ last[t] = "ok"

\* C18: as stated. Of two overwrite=false tasks with the same remote name,
\* at most one gets to the upload, under every interleaving of their probes
\* and uploads.
C18_AtMostOneUploads ==
    \A t, u \in Ids : SameNameNoOverwrite(t, u) => ~(ReachedUpload(t) /\ ReachedUpload(u))

\* C18: as amended. An invocation of upload_file whose existence probe runs
\* while the object store holds the name never goes on to the upload: it
\* ends there, and when it ends with the probe's verdict the task fails with
\* the conflict error.  A probe that runs while the name is absent lets the
\* task go on, so two such tasks whose probes both run before either upload
\* both upload.
C18_ProbeOnExistingNeverUploads ==
    [][ \A t \in Ids :
          (state[t] = "call" /\ NeedsProbe(t) /\ state'[t] # state[t]
              /\ task[t].name \in remote)
             => /\ state'[t] \in {"failed", "call"}
                /\ remote' = remote /\ stored' = stored
                /\ last'[t] = "conflict"
                      => state'[t] = "failed" /\ exc'[t] = ConflictError ]_vars

\* of two overwrite=false tasks with one name, the first has uploaded and the
\* second, probing afterwards, has failed with the conflict error
C18_Witness ==
    \E t, u \in Ids :
       /\ SameNameNoOverwrite(t, u)
       /\ state[t] = "succeeded" /\ stored[task[t].name] = SubmittedContent(t)
       /\ state[u] = "failed" /\ exc[u] = ConflictError

\* C20: under fair scheduling every submitted task that is not done,
\* queued ones included, becomes done (succeeded or failed), and every
\* wait() or wait_and_close() call that has begun ends, by returning or by
\* raising.
C20_EveryTaskTerminates ==
    /\ \A t \in Ids : (state[t] \in {"queued", "sleep", "call", "upload"}) ~> Done(t)
    /\ (pc \in WaitOps) ~> (pc = "completed" /\ result.op \in WaitOps)

\* wait() has ended with every one of at least two submitted tasks done, the
\* last of which had to queue behind the others and sleep before its upload
C20_Witness ==
    /\ pc = "completed" /\ result.op = "wait"
    /\ Cardinality(Submitted) >= 2
    /\ \A t \in Submitted : Done(t) /\ slept[t] = MaxRank * MaxStagger
    /\ \E t \in Submitted : state[t] = "succeeded"
====
